---- MODULE Spec2Model ----
(***************************************************************************)
(* A model of the EDF viewer: readEDFFile (header parsing and sample       *)
(* de-interleaving), the unit conversion used for the per-channel mean,    *)
(* decimateData, getWindowStart, renderWindow and the load / resize /      *)
(* scroll handlers.                                                        *)
(*                                                                         *)
(* Bytes and characters are integers (ASCII codes), texts are sequences of *)
(* codes, arrays are sequences, array identities are heap references.      *)
(* JavaScript numbers are records [t, n, d]: NaN, +-Infinity or the exact  *)
(* rational n/d in lowest terms (binary rounding is not modelled).         *)
(***************************************************************************)
EXTENDS Integers, Sequences, FiniteSets, TLC

----------------------------------------------------------------------------
(* JavaScript numbers *)

Abs(x) == IF x < 0 THEN -x ELSE x

Sign(x) == IF x < 0 THEN -1 ELSE 1

Max(a, b) == IF a >= b THEN a ELSE b

Min(a, b) == IF a <= b THEN a ELSE b

RECURSIVE GCD(_, _)
GCD(a, b) == IF b = 0 THEN a ELSE GCD(b, a % b)

Pow10(k) == CASE k = 0 -> 1 [] k = 1 -> 10 [] k = 2 -> 100 [] k = 3 -> 1000
              [] k = 4 -> 10000 [] k = 5 -> 100000 [] k = 6 -> 1000000
              [] OTHER -> 10000000

NaN == [t |-> "nan", n |-> 0, d |-> 1]

Inf(s) == [t |-> "inf", n |-> s, d |-> 1]

\* the rational a/b, b # 0, in lowest terms with a positive denominator
Reduced(a, b, g) == [t |-> "fin", n |-> Sign(b) * (a \div g), d |-> Abs(b) \div g]

Rat(a, b) == Reduced(a, b, GCD(Abs(a), Abs(b)))

Num(i) == [t |-> "fin", n |-> i, d |-> 1]

isNaN(x) == x.t = "nan"

NumNeg(x) == IF x.t = "nan" THEN NaN ELSE [x EXCEPT !.n = -x.n]

NumAdd(x, y) ==
  CASE x.t = "nan" \/ y.t = "nan" -> NaN
    [] x.t = "inf" /\ y.t = "inf" -> IF x.n = y.n THEN x ELSE NaN
    [] x.t = "inf" -> x
    [] y.t = "inf" -> y
    [] OTHER -> Rat(x.n * y.d + y.n * x.d, x.d * y.d)

NumSub(x, y) == NumAdd(x, NumNeg(y))

NumMul(x, y) ==
  CASE x.t = "nan" \/ y.t = "nan" -> NaN
    [] x.t = "inf" \/ y.t = "inf" ->
         IF x.n = 0 \/ y.n = 0 THEN NaN ELSE Inf(Sign(x.n) * Sign(y.n))
    [] OTHER -> Rat(x.n * y.n, x.d * y.d)

NumDiv(x, y) ==
  CASE x.t = "nan" \/ y.t = "nan" -> NaN
    [] x.t = "inf" /\ y.t = "inf" -> NaN
    [] x.t = "inf" -> Inf(x.n * Sign(y.n))
    [] y.t = "inf" -> Num(0)
    [] y.n = 0 -> IF x.n = 0 THEN NaN ELSE Inf(Sign(x.n))
    [] OTHER -> Rat(x.n * y.d, x.d * y.n)

\* x <= y on numbers; every comparison with NaN is false
NumLeq(x, y) ==
  CASE x.t = "nan" \/ y.t = "nan" -> FALSE
    [] x.t = "inf" -> x.n < 0 \/ (y.t = "inf" /\ y.n > 0)
    [] y.t = "inf" -> y.n > 0
    [] OTHER -> x.n * y.d <= y.n * x.d

\* ToIntegerOrInfinity of an integer-or-NaN number, as slice() applies it
ToInteger(x) == IF x.t = "fin" THEN x.n ELSE 0

----------------------------------------------------------------------------
(* texts: TextDecoder, trim, parseInt, parseFloat *)

IsWhiteSpace(c) == c \in {9, 10, 11, 12, 13, 32}

IsDigit(c) == c \in 48..57

IsHexDigit(c) == c \in 48..57 \/ c \in 65..70 \/ c \in 97..102

HexValue(c) == IF c \in 48..57 THEN c - 48 ELSE IF c \in 65..70 THEN c - 55 ELSE c - 87

\* new TextDecoder().decode(bytes): ASCII bytes are their own code points,
\* a byte that is not ASCII decodes to U+FFFD
TextDecode(bytes) == [i \in 1..Len(bytes) |-> IF bytes[i] < 128 THEN bytes[i] ELSE 65533]

RECURSIVE TrimStart(_)
TrimStart(s) ==
  IF s = <<>> THEN s
  ELSE IF IsWhiteSpace(Head(s)) THEN TrimStart(Tail(s)) ELSE s

RECURSIVE TrimEnd(_)
TrimEnd(s) ==
  IF s = <<>> THEN s
  ELSE IF IsWhiteSpace(s[Len(s)]) THEN TrimEnd(SubSeq(s, 1, Len(s) - 1)) ELSE s

trim(s) == TrimEnd(TrimStart(s))

\* the number of leading characters of s that satisfy the digit test
RECURSIVE DigitRun(_, _)
DigitRun(s, hex) ==
  IF s = <<>> THEN 0
  ELSE IF (IF hex THEN IsHexDigit(Head(s)) ELSE IsDigit(Head(s)))
       THEN 1 + DigitRun(Tail(s), hex) ELSE 0

RECURSIVE DigitsValue(_, _, _)
DigitsValue(s, radix, acc) ==
  IF s = <<>> THEN acc
  ELSE DigitsValue(Tail(s), radix, acc * radix + HexValue(Head(s)))

HasSign(s) == s # <<>> /\ Head(s) \in {43, 45}

SignOf(s) == IF s # <<>> /\ Head(s) = 45 THEN -1 ELSE 1

StripSign(s) == IF HasSign(s) THEN Tail(s) ELSE s

IsHexPrefix(body) == Len(body) >= 2 /\ body[1] = 48 /\ body[2] \in {88, 120}

\* the integer of the first k digits of ds, NaN when there is no digit
IntegerOfRun(sign, ds, radix, k) ==
  IF k = 0 THEN NaN ELSE Num(sign * DigitsValue(SubSeq(ds, 1, k), radix, 0))

parseIntDigits(sign, ds, hex) ==
  IntegerOfRun(sign, ds, IF hex THEN 16 ELSE 10, DigitRun(ds, hex))

parseIntBody(sign, body) ==
  IF IsHexPrefix(body) THEN parseIntDigits(sign, SubSeq(body, 3, Len(body)), TRUE)
  ELSE parseIntDigits(sign, body, FALSE)

parseIntTrimmed(s) == parseIntBody(SignOf(s), StripSign(s))

\* parseInt(string) with no radix: leading white space, a sign, an optional
\* 0x prefix, then the longest run of digits; NaN when there is no digit
parseInt(str) == parseIntTrimmed(TrimStart(str))

Infinity == <<73, 110, 102, 105, 110, 105, 116, 121>>

\* mantissa * 10^shift
FloatValue(sign, mant, shift) ==
  IF shift >= 0 THEN Num(sign * mant * Pow10(shift)) ELSE Rat(sign * mant, Pow10(0 - shift))

ExponentRun(sign, edig, ke) ==
  IF ke = 0 THEN 0 ELSE sign * DigitsValue(SubSeq(edig, 1, ke), 10, 0)

ExponentDigits(ebody) == ExponentRun(SignOf(ebody), StripSign(ebody), DigitRun(StripSign(ebody), FALSE))

\* the value of an exponent part e[+-]digits at the head of rest, 0 without one
Exponent(rest) ==
  IF rest # <<>> /\ Head(rest) \in {69, 101} THEN ExponentDigits(Tail(rest)) ELSE 0

parseFloatExp(sign, intDigits, fracDigits, rest) ==
  IF Len(intDigits) + Len(fracDigits) = 0 THEN NaN
  ELSE FloatValue(sign, DigitsValue(intDigits \o fracDigits, 10, 0),
                  Exponent(rest) - Len(fracDigits))

parseFloatFracRun(sign, intDigits, afterDot, kf) ==
  parseFloatExp(sign, intDigits, SubSeq(afterDot, 1, kf), SubSeq(afterDot, kf + 1, Len(afterDot)))

parseFloatFrac(sign, intDigits, rest) ==
  IF rest # <<>> /\ Head(rest) = 46
  THEN parseFloatFracRun(sign, intDigits, Tail(rest), DigitRun(Tail(rest), FALSE))
  ELSE parseFloatExp(sign, intDigits, <<>>, rest)

parseFloatInt(sign, body, ki) ==
  parseFloatFrac(sign, SubSeq(body, 1, ki), SubSeq(body, ki + 1, Len(body)))

parseFloatBody(sign, body) ==
  IF Len(body) >= 8 /\ SubSeq(body, 1, 8) = Infinity THEN Inf(sign)
  ELSE parseFloatInt(sign, body, DigitRun(body, FALSE))

parseFloatTrimmed(s) == parseFloatBody(SignOf(s), StripSign(s))

\* parseFloat(string): sign, digits, optional fraction, optional exponent;
\* the longest prefix that is a decimal literal, NaN when there is none
parseFloat(str) == parseFloatTrimmed(TrimStart(str))

----------------------------------------------------------------------------
(* ArrayBuffer, DataView and Array primitives *)

\* Array.prototype.slice / ArrayBuffer.prototype.slice: a negative index
\* counts from the end, both indices are clamped to the length
RelativeIndex(i, len) == IF i < 0 THEN Max(len + i, 0) ELSE Min(i, len)

slice(a, start, end) ==
  SubSeq(a, RelativeIndex(start, Len(a)) + 1, RelativeIndex(end, Len(a)))

\* new TextDecoder().decode(new Uint8Array(arrayBuffer.slice(start, start + width))).trim()
\* where start is a number that may be NaN
field(arrayBuffer, start, width) ==
  trim(TextDecode(slice(arrayBuffer, ToInteger(start), ToInteger(NumAdd(start, Num(width))))))

\* dataView.getInt16(byteOffset, true) throws a RangeError outside the buffer
getInt16Throws(arrayBuffer, byteOffset) ==
  byteOffset < 0 \/ byteOffset + 2 > Len(arrayBuffer)

\* an unsigned 16-bit pattern read as two's complement
ToInt16(u) == IF u >= 32768 THEN u - 65536 ELSE u

\* the bytes taken in the other order
getInt16_BigEndian(arrayBuffer, byteOffset) ==
  ToInt16(256 * arrayBuffer[byteOffset + 1] + arrayBuffer[byteOffset + 2])

\* dataView.getInt16(byteOffset, true): little-endian, two's complement
getInt16(arrayBuffer, byteOffset) ==
  ToInt16(arrayBuffer[byteOffset + 1] + 256 * arrayBuffer[byteOffset + 2])

\* Array(n) throws a RangeError unless n is an integer in 0 .. 2^32 - 1; the
\* four-character field it is parsed from cannot reach the upper limit
ArrayThrows(n) == ~(n.t = "fin" /\ n.d = 1 /\ n.n >= 0)

\* the number of iterations of  for (let i = 0; i < n; i++)
LoopCount(n) == IF n.t = "fin" /\ n.n > 0 THEN n.n ELSE 0

\* the sum of the elements lo .. hi of s, by halves
RECURSIVE SumRange(_, _, _)
SumRange(s, lo, hi) ==
  IF lo > hi THEN 0
  ELSE IF lo = hi THEN s[lo]
  ELSE SumRange(s, lo, (lo + hi) \div 2) + SumRange(s, (lo + hi) \div 2 + 1, hi)

SeqSum(s) == SumRange(s, 1, Len(s))

----------------------------------------------------------------------------
(* readEDFFile *)

bytesPerValue == 2

\* headerSize = 256 + (256 * numSignals)
headerSize(numSignals) == 256 + (256 * numSignals)

\* recordStart = dataStart + (record * numSignals * bytesPerValue)
recordStart(numSignals, record) == headerSize(numSignals) + (record * numSignals * bytesPerValue)

\* recordStart + (signal * bytesPerValue)
valueOffset(numSignals, record, signal) ==
  recordStart(numSignals, record) + (signal * bytesPerValue)

\* the inner loop of one record: one getInt16 and one push per signal, in
\* signal order; a RangeError ends it
RECURSIVE readRecord(_, _, _, _, _)
readRecord(arrayBuffer, numSignals, record, signal, signals) ==
  IF signal >= numSignals THEN [threw |-> FALSE, signals |-> signals]
  ELSE IF getInt16Throws(arrayBuffer, valueOffset(numSignals, record, signal))
       THEN [threw |-> TRUE, signals |-> signals]
       ELSE readRecord(arrayBuffer, numSignals, record, signal + 1,
              [signals EXCEPT ![signal + 1] =
                 Append(@, getInt16(arrayBuffer, valueOffset(numSignals, record, signal)))])

\* the outer loop over the records lo .. hi - 1, in record order: the first
\* half of the range, then, unless that threw, the second half
RECURSIVE readSignals(_, _, _, _, _)
readSignals(arrayBuffer, numSignals, lo, hi, st) ==
  IF st.threw \/ lo >= hi THEN st
  ELSE IF hi = lo + 1 THEN readRecord(arrayBuffer, numSignals, lo, 0, st.signals)
  ELSE readSignals(arrayBuffer, numSignals, (lo + hi) \div 2, hi,
                   readSignals(arrayBuffer, numSignals, lo, (lo + hi) \div 2, st))

\* the conversion scaled by the physical maximum instead of the physical range
toPhysical_NoRange(raw, digMin, digMax, physMin, physMax) ==
  NumAdd(NumDiv(NumMul(NumSub(raw, digMin), physMax), NumSub(digMax, digMin)), physMin)

\* ((raw - digMin) * (physMax - physMin) / (digMax - digMin)) + physMin
toPhysical(raw, digMin, digMax, physMin, physMax) ==
  NumAdd(NumDiv(NumMul(NumSub(raw, digMin), NumSub(physMax, physMin)),
                NumSub(digMax, digMin)),
         physMin)

\* signal.reduce((sum, v) => sum + v, 0) / signal.length
meanDigital(signal) == NumDiv(Num(SeqSum(signal)), Num(Len(signal)))

\* the header field of channel i (from 1) in the parallel array at base
channelField(arrayBuffer, base, n, i) ==
  field(arrayBuffer, Num(256 + base * n + (i - 1) * 8), 8)

\* the logged mean of channel i in physical units
meanPhysical(arrayBuffer, n, i, signal) ==
  toPhysical(meanDigital(signal),
             parseInt(channelField(arrayBuffer, 120, n, i)),
             parseInt(channelField(arrayBuffer, 128, n, i)),
             parseFloat(channelField(arrayBuffer, 104, n, i)),
             parseFloat(channelField(arrayBuffer, 112, n, i)))

Thrown(config, parsed) ==
  [threw |-> TRUE, config |-> config, parsed |-> parsed,
   signals |-> <<>>, labels |-> <<>>, log |-> <<>>]

\* from  const signals = Array(numSignals)...  to the return: the sample
\* loop, the calibration fields, the logged means
readData(arrayBuffer, config, parsed, n, read) ==
  IF read.threw THEN Thrown(config, parsed)
  ELSE [threw |-> FALSE, config |-> config, parsed |-> parsed,
        signals |-> read.signals,
        labels |-> [i \in 1..n |-> field(arrayBuffer, Num(256 + (i - 1) * 16), 16)],
        log |-> [i \in 1..n |-> meanPhysical(arrayBuffer, n, i, read.signals[i])]]

\* the assignments to DATA_CONFIG, then the rest of the function
readConfigured(arrayBuffer, config, parsed) ==
  IF ArrayThrows(parsed.numSignals) THEN Thrown(config, parsed)
  ELSE readData(arrayBuffer, config, parsed, LoopCount(parsed.numSignals),
                readSignals(arrayBuffer, LoopCount(parsed.numSignals), 0,
                            LoopCount(parsed.numDataRecords),
                            [threw |-> FALSE,
                             signals |-> [i \in 1..LoopCount(parsed.numSignals) |-> <<>>]]))

readParsed(arrayBuffer, config, parsed) ==
  readConfigured(arrayBuffer,
                 [config EXCEPT
                    !.numSources = parsed.numSignals,
                    !.samplingRate = NumDiv(parsed.samplesPerRecord, parsed.durationOfDataRecord),
                    !.duration = NumMul(parsed.numDataRecords, parsed.durationOfDataRecord)],
                 parsed)

readHeader(arrayBuffer, config, numSignals) ==
  readParsed(arrayBuffer, config,
             [numSignals |-> numSignals,
              numDataRecords |-> parseInt(field(arrayBuffer, Num(236), 8)),
              durationOfDataRecord |-> parseFloat(field(arrayBuffer, Num(244), 8)),
              samplesPerRecord |->
                parseInt(field(arrayBuffer, NumAdd(Num(256), NumMul(Num(216), numSignals)), 8))])

\* the body of readEDFFile after the fetch: the header fields it parses,
\* the DATA_CONFIG it leaves behind, and either the returned value or a throw
readEDFFile(arrayBuffer, config) ==
  readHeader(arrayBuffer, config, parseInt(field(arrayBuffer, Num(252), 4)))

----------------------------------------------------------------------------
(* decimateData, getWindowStart *)

\* DATA_CONFIG.maxPointsPerWave
maxPointsPerWave == 100

\* what data[index] evaluates to when index is outside the array; samples
\* are 16-bit, so the marker is no sample value
undefined == 0 - 99999

ElementAt(data, index) ==
  IF index >= 0 /\ index < Len(data) THEN data[index + 1] ELSE undefined

\* the stride rounded up
decimateRatio_Ceil(length, targetLength) == (length + targetLength - 1) \div targetLength

\* Math.floor(data.length / targetLength)
decimateRatio(length, targetLength) == length \div targetLength

\* for (let i = 0; i < targetLength; i++) result.push(data[i * ratio])
RECURSIVE decimateLoop(_, _, _, _, _)
decimateLoop(data, targetLength, ratio, i, result) ==
  IF i >= targetLength THEN result
  ELSE decimateLoop(data, targetLength, ratio, i + 1,
                    Append(result, ElementAt(data, i * ratio)))

\* decimateData returns its argument itself, not a copy, on the early return
decimateReturnsArgument(length, targetLength) == length <= targetLength

decimateData(data, targetLength) ==
  IF decimateReturnsArgument(Len(data), targetLength) THEN data
  ELSE decimateLoop(data, targetLength, decimateRatio(Len(data), targetLength), 0, <<>>)

\* getWindowStart: 0 without a scrollbar, else the scrollbar's value capped
\* at max(0, totalLength - maxPointsPerWave)
getWindowStart(sb, el, totalLength, config) ==
  IF ~sb THEN 0
  ELSE Min(ToInteger(parseInt(el.value)), Max(0, totalLength - config.maxPointsPerWave))

----------------------------------------------------------------------------
(* the EDF files the page may be served *)

MaxChannels == 2

MaxRecords == 3

MaxExtraRecords == 2

MaxSamplesPerRecord == 2

MaxCut == 2

Patterns == 1..2

RECURSIVE NatText(_)
NatText(n) == IF n < 10 THEN <<48 + n>> ELSE NatText(n \div 10) \o <<48 + (n % 10)>>

\* the decimal text of an integer
IntText(n) == IF n < 0 THEN <<45>> \o NatText(-n) ELSE NatText(n)

\* a header field: the text, left-justified and padded with spaces
PadRight(text, width) ==
  [i \in 1..width |-> IF i <= Len(text) THEN text[i] ELSE 32]

\* the two bytes of a 16-bit two's complement value, low byte first
Int16Bytes(v) == <<((v + 65536) % 65536) % 256, ((v + 65536) % 65536) \div 256>>

\* the sample of channel k (from 0) at time t (from 0) of a test pattern
PatternValue(pat, channels, k, t) ==
  IF pat = 1 THEN 10 * (t * channels + k + 1)
  ELSE ((257 * (t * channels + k)) % 65536) - 32768

ChannelLabel(k) == <<67, 104, 48 + k>>

\* a well-formed recording: every field as the format lays it out
ValidFile(channels, records, spr, pat) ==
  [channels |-> channels, records |-> records, spr |-> spr,
   numSignals |-> IntText(channels), numDataRecords |-> IntText(records),
   durationOfDataRecord |-> IntText(1), samplesPerRecord |-> IntText(spr),
   physMin |-> IntText(-5), physMax |-> IntText(5),
   digMin |-> IntText(-32768), digMax |-> IntText(32767),
   samples |-> [k \in 1..channels |->
                  [t \in 1..(records * spr) |-> PatternValue(pat, channels, k - 1, t - 1)]],
   cut |-> 0, malformed |-> "none"]

DataSize(f) == 2 * f.channels * f.records * f.spr

FileSize(f) == 256 + 256 * f.channels + DataSize(f)

\* the sample at position j of the data section: each record holds, channel
\* by channel, that channel's spr samples
DataSample(f, j) ==
  f.samples[((j % (f.channels * f.spr)) \div f.spr) + 1]
           [(j \div (f.channels * f.spr)) * f.spr + (j % f.spr) + 1]

\* the character at offset so of the signal headers, the parallel array of
\* width-w fields at base holding text
HeaderChar(text, w, base, so) == PadRight(text, w)[((so - base) % w) + 1]

\* the byte at offset so of the signal headers and the data section
SignalByte(f, ns, so) ==
  CASE so < 16 * ns -> PadRight(ChannelLabel(so \div 16), 16)[(so % 16) + 1]
    [] so >= 104 * ns /\ so < 112 * ns -> HeaderChar(f.physMin, 8, 104 * ns, so)
    [] so >= 112 * ns /\ so < 120 * ns -> HeaderChar(f.physMax, 8, 112 * ns, so)
    [] so >= 120 * ns /\ so < 128 * ns -> HeaderChar(f.digMin, 8, 120 * ns, so)
    [] so >= 128 * ns /\ so < 136 * ns -> HeaderChar(f.digMax, 8, 128 * ns, so)
    [] so >= 216 * ns /\ so < 224 * ns -> HeaderChar(f.samplesPerRecord, 8, 216 * ns, so)
    [] so < 256 * ns -> 32
    [] OTHER -> Int16Bytes(DataSample(f, (so - 256 * ns) \div 2))[((so - 256 * ns) % 2) + 1]

\* the byte at an offset of the file: the fixed header, the signal headers
\* as parallel arrays, then the data records
FileByte(f, o) ==
  CASE o \in 236..243 -> PadRight(f.numDataRecords, 8)[o - 235]
    [] o \in 244..251 -> PadRight(f.durationOfDataRecord, 8)[o - 243]
    [] o \in 252..255 -> PadRight(f.numSignals, 4)[o - 251]
    [] o < 256 -> 32
    [] OTHER -> SignalByte(f, f.channels, o - 256)

\* the bytes of the file, its last f.cut bytes missing
FileBytes(f) == [i \in 1..Max(0, FileSize(f) - f.cut) |-> FileByte(f, i - 1)]

RecordCounts ==
  (0..MaxRecords) \cup ((maxPointsPerWave + 1)..(maxPointsPerWave + MaxExtraRecords))

ValidFiles ==
  {ValidFile(c, r, s, p) : c \in 1..MaxChannels, r \in RecordCounts,
                           s \in 1..MaxSamplesPerRecord, p \in Patterns}

\* truncations: a few bytes off the end, in the middle of the data section,
\* at the end of the header, inside the signal headers, after the fixed header
Cuts(f) ==
  (1..MaxCut) \cup {DataSize(f) \div 2 + 1, DataSize(f), DataSize(f) + 40 * f.channels,
                    DataSize(f) + 256 * f.channels}

CutFile(f, c) == [f EXCEPT !.cut = c]

TruncationsOf(f) == {CutFile(f, c) : c \in Cuts(f)}

TruncatedFiles ==
  UNION {TruncationsOf(ValidFile(ch, r, 1, 1)) : ch \in 1..MaxChannels, r \in RecordCounts}

BadTexts == {<<>>, <<65>>, IntText(-1), IntText(0), <<48, 46, 53>>}

NumericFields == {"numSignals", "numDataRecords", "durationOfDataRecord", "samplesPerRecord",
                  "physMin", "physMax", "digMin", "digMax"}

\* one numeric header field of a well-formed file overwritten
WithField(f, name, text) ==
  CASE name = "numSignals" -> [f EXCEPT !.numSignals = text, !.malformed = name]
    [] name = "numDataRecords" -> [f EXCEPT !.numDataRecords = text, !.malformed = name]
    [] name = "durationOfDataRecord" -> [f EXCEPT !.durationOfDataRecord = text, !.malformed = name]
    [] name = "samplesPerRecord" -> [f EXCEPT !.samplesPerRecord = text, !.malformed = name]
    [] name = "physMin" -> [f EXCEPT !.physMin = text, !.malformed = name]
    [] name = "physMax" -> [f EXCEPT !.physMax = text, !.malformed = name]
    [] name = "digMin" -> [f EXCEPT !.digMin = text, !.malformed = name]
    [] OTHER -> [f EXCEPT !.digMax = text, !.malformed = name]

MalformedFiles ==
  {WithField(ValidFile(c, MaxRecords, 1, 1), name, text) :
     c \in 1..MaxChannels, name \in NumericFields, text \in BadTexts}

Files == ValidFiles \cup TruncatedFiles \cup MalformedFiles

----------------------------------------------------------------------------
(* the page *)

VARIABLES
  edf,            \* the recording behind /demo.edf, as it was written
  arrayBuffer,    \* the bytes fetch delivers
  pc,             \* where initializeVisualization stands
  DATA_CONFIG,
  result,         \* what readEDFFile returned, or that it threw
  heap,           \* the contents of the live arrays, by reference
  globalSignals,  \* references of the channel arrays
  globalLabels,
  scrollbar,      \* FALSE for null, TRUE once it refers to the element
  scrollbarEl,    \* the #scrollbar element of the document
  consoleLog,     \* the per-channel mean readEDFFile logs
  rendered,       \* per channel, what the last renderWindow drew
  lastEvent,      \* the handler that ran last
  decData, decTarget, decResult,   \* an application of decimateData
  calib, physTable                 \* an application of toPhysical

vars == <<edf, arrayBuffer, pc, DATA_CONFIG, result, heap, globalSignals, globalLabels,
          scrollbar, scrollbarEl, consoleLog, rendered, lastEvent,
          decData, decTarget, decResult, calib, physTable>>

pageVars == <<edf, arrayBuffer, pc, DATA_CONFIG, result, heap, globalSignals, globalLabels,
              scrollbar, scrollbarEl, consoleLog, rendered, lastEvent>>

decVars == <<decData, decTarget, decResult>>

physVars == <<calib, physTable>>

InitConfig ==
  [numSources |-> Num(0), samplingRate |-> Num(0), duration |-> Num(0),
   maxPointsPerWave |-> maxPointsPerWave, amplitudeScale |-> 2]

NoResult == [status |-> "pending", signals |-> <<>>, labels |-> <<>>, parsed |-> <<>>]

NoDecimation == [done |-> FALSE, value |-> <<>>]

NoCalibration == [digMin |-> 0, digMax |-> 0, physMin |-> 0, physMax |-> 0]

DecIdle == decData = <<>> /\ decTarget = 1 /\ decResult = NoDecimation

PhysIdle == calib = NoCalibration /\ physTable = <<>>

PageIdle ==
  /\ edf = <<>> /\ arrayBuffer = <<>> /\ pc = "idle" /\ DATA_CONFIG = InitConfig
  /\ result = NoResult /\ heap = <<>> /\ globalSignals = <<>> /\ globalLabels = <<>>
  /\ scrollbar = FALSE
  /\ scrollbarEl = [exists |-> FALSE, value |-> IntText(0), max |-> IntText(100),
                    disabled |-> FALSE, listening |-> FALSE]
  /\ consoleLog = <<>> /\ rendered = <<>> /\ lastEvent = "none"

PageInit ==
  /\ edf \in Files
  /\ arrayBuffer = FileBytes(edf)
  /\ pc = "fetching"
  /\ DATA_CONFIG = InitConfig
  /\ result = NoResult
  /\ heap = <<>>
  /\ globalSignals = <<>>
  /\ globalLabels = <<>>
  /\ scrollbar = FALSE
  /\ \E exists \in BOOLEAN :
       scrollbarEl = [exists |-> exists, value |-> IntText(0), max |-> IntText(100),
                      disabled |-> FALSE, listening |-> FALSE]
  /\ consoleLog = <<>>
  /\ rendered = <<>>
  /\ lastEvent = "none"

Init == PageInit /\ DecIdle /\ PhysIdle

\* the channel array itself handed on, with no copy
sliceRef_Alias(source, fresh) == source

\* Array.prototype.slice allocates: the window is a new array
sliceRef(source, fresh) == fresh

\* what is drawn for one channel: the window bounds, the slice (a new
\* array) and the decimated sequence the points are built from, which is the
\* slice itself when decimateData returns its argument
drawDecimated(ref, n, i, start, end, windowData, budget) ==
  [signal |-> ref, start |-> start, end |-> end,
   windowData |-> sliceRef(ref, n + i), window |-> windowData,
   decimatedData |-> IF decimateReturnsArgument(Len(windowData), budget)
                     THEN sliceRef(ref, n + i) ELSE 2 * n + i,
   decimated |-> decimateData(windowData, budget)]

\* end = Math.min(start + maxPointsPerWave, signal.length)
drawWindow(ref, signal, n, i, start, end, budget) ==
  drawDecimated(ref, n, i, start, end, slice(signal, start, end), budget)

drawStart(ref, signal, n, i, start, budget) ==
  drawWindow(ref, signal, n, i, start, Min(start + budget, Len(signal)), budget)

drawChannel(ref, signal, n, i, sb, el, config) ==
  drawStart(ref, signal, n, i, getWindowStart(sb, el, Len(signal), config),
            config.maxPointsPerWave)

\* the contents of array r after the call: a channel, a window or a
\* decimated sequence
ArrayContent(drawn, n, h, r) ==
  IF r \in 1..n THEN h[r]
  ELSE IF \E i \in DOMAIN drawn : drawn[i].windowData = r
       THEN drawn[CHOOSE i \in DOMAIN drawn : drawn[i].windowData = r].window
       ELSE drawn[CHOOSE i \in DOMAIN drawn : drawn[i].decimatedData = r].decimated

LiveRefs(drawn, n) ==
  (1..n) \cup {drawn[i].windowData : i \in DOMAIN drawn}
         \cup {drawn[i].decimatedData : i \in DOMAIN drawn}

renderDrawn(drawn, n, h) ==
  [rendered |-> [i \in DOMAIN drawn |->
                   [signal |-> drawn[i].signal, start |-> drawn[i].start,
                    end |-> drawn[i].end, windowData |-> drawn[i].windowData,
                    decimatedData |-> drawn[i].decimatedData]],
   heap |-> [r \in LiveRefs(drawn, n) |-> ArrayContent(drawn, n, h, r)]]

renderSelected(selected, n, sb, el, config, h) ==
  renderDrawn([i \in DOMAIN selected |->
                 drawChannel(selected[i], h[selected[i]], n, i, sb, el, config)], n, h)

\* renderWindow: for each selected channel the window start and end, the
\* slice and the decimated sequence; the arrays it allocates replace those
\* of the previous call, which are garbage by then
renderWindow(signals, sb, el, config, h) ==
  renderSelected(slice(signals, 0, ToInteger(config.numSources)), Len(signals),
                 sb, el, config, h)

\* the body of readEDFFile once the fetch has delivered the bytes
ReadEDFFile ==
  /\ pc = "fetching"
  /\ \E r \in {readEDFFile(arrayBuffer, DATA_CONFIG)} :
       /\ DATA_CONFIG' = r.config
       /\ IF r.threw
          THEN /\ pc' = "threw"
               /\ result' = [status |-> "threw", signals |-> <<>>, labels |-> <<>>,
                             parsed |-> r.parsed]
               /\ UNCHANGED <<heap, consoleLog>>
          ELSE /\ pc' = "returned"
               /\ heap' = r.signals
               /\ result' = [status |-> "returned",
                             signals |-> [i \in 1..Len(r.signals) |-> i],
                             labels |-> r.labels, parsed |-> r.parsed]
               /\ consoleLog' = r.log
  /\ lastEvent' = "readEDFFile"
  /\ UNCHANGED <<edf, arrayBuffer, globalSignals, globalLabels, scrollbar, scrollbarEl,
                 rendered, decVars, physVars>>

\* the scrollbar as initializeVisualization sets it up for dataLen samples
setupScrollbar(el, dataLen, budget) ==
  [el EXCEPT !.max = IntText(Max(0, dataLen - budget)),
             !.value = IntText(0),
             !.disabled = (dataLen <= budget),
             !.listening = TRUE]

\* initializeVisualization after the await: store the result, set up the
\* scrollbar, draw; signals[0].length is a TypeError when there is no channel
InitializeVisualization ==
  /\ pc = "returned"
  /\ globalSignals' = result.signals
  /\ globalLabels' = result.labels
  /\ scrollbar' = scrollbarEl.exists
  /\ IF scrollbarEl.exists /\ result.signals = <<>>
     THEN /\ pc' = "failed"
          /\ UNCHANGED <<scrollbarEl, heap, rendered>>
     ELSE /\ scrollbarEl' =
               IF scrollbarEl.exists
               THEN setupScrollbar(scrollbarEl, Len(heap[result.signals[1]]),
                                   DATA_CONFIG.maxPointsPerWave)
               ELSE scrollbarEl
          /\ \E w \in {renderWindow(result.signals, scrollbarEl.exists, scrollbarEl',
                                    DATA_CONFIG, heap)} :
               rendered' = w.rendered /\ heap' = w.heap
          /\ pc' = "loaded"
  /\ lastEvent' = "initializeVisualization"
  /\ UNCHANGED <<edf, arrayBuffer, DATA_CONFIG, result, consoleLog, decVars, physVars>>

\* initializeVisualization's catch of a failed readEDFFile
CatchError ==
  /\ pc = "threw"
  /\ pc' = "failed"
  /\ lastEvent' = "catch"
  /\ UNCHANGED <<edf, arrayBuffer, DATA_CONFIG, result, heap, globalSignals, globalLabels,
                 scrollbar, scrollbarEl, consoleLog, rendered, decVars, physVars>>

\* the window's resize listener; it is registered before the load completes
Resize ==
  /\ pc \in {"fetching", "loaded", "failed"}
  /\ \E w \in {renderWindow(globalSignals, scrollbar, scrollbarEl, DATA_CONFIG, heap)} :
       rendered' = w.rendered /\ heap' = w.heap
  /\ lastEvent' = "resize"
  /\ UNCHANGED <<edf, arrayBuffer, pc, DATA_CONFIG, result, globalSignals, globalLabels,
                 scrollbar, scrollbarEl, consoleLog, decVars, physVars>>

MaxBelow == 1

MaxScroll == 3

\* the values the scrollbar may hold when its listener runs, for a channel
\* of length len: below zero, inside the range, beyond the maximum
ScrollValues(len) == ((0 - MaxBelow)..MaxScroll) \cup {len, len + 1}

\* the scrollbar's input listener: the element holds a new value
ScrollInput ==
  /\ pc = "loaded"
  /\ scrollbarEl.listening /\ ~scrollbarEl.disabled
  /\ \E v \in ScrollValues(Len(heap[globalSignals[1]])) :
       /\ scrollbarEl' = [scrollbarEl EXCEPT !.value = IntText(v)]
       /\ \E w \in {renderWindow(globalSignals, scrollbar, scrollbarEl', DATA_CONFIG, heap)} :
            rendered' = w.rendered /\ heap' = w.heap
  /\ lastEvent' = "input"
  /\ UNCHANGED <<edf, arrayBuffer, pc, DATA_CONFIG, result, globalSignals, globalLabels,
                 scrollbar, consoleLog, decVars, physVars>>

Next == ReadEDFFile \/ InitializeVisualization \/ CatchError \/ Resize \/ ScrollInput

Spec == Init /\ [][Next]_vars

----------------------------------------------------------------------------
(* decimateData applied to arbitrary arrays and budgets *)

MaxLen == 5

MaxTarget == 4

SampleValues == {0 - 3, 0, 7}

Ramp(n) == [i \in 1..n |-> 10 + i]

DecimateInputs ==
  UNION {[1..n -> SampleValues] : n \in 0..MaxLen} \cup {Ramp(n) : n \in 1..(MaxLen + 1)}

DecimateInit ==
  /\ decData \in DecimateInputs
  /\ decTarget \in 1..MaxTarget
  /\ decResult = NoDecimation

Decimate ==
  /\ ~decResult.done
  /\ decResult' = [done |-> TRUE, value |-> decimateData(decData, decTarget)]
  /\ UNCHANGED <<decData, decTarget, pageVars, physVars>>

InitDecimate == PageIdle /\ PhysIdle /\ DecimateInit

NextDecimate == Decimate

SpecDecimate == InitDecimate /\ [][NextDecimate]_vars

----------------------------------------------------------------------------
(* toPhysical applied to arbitrary integer calibrations *)

MaxCal == 2

CalValues == (0 - MaxCal)..MaxCal

RawValues == (0 - MaxCal - 1)..(MaxCal + 1)

PhysicalInit ==
  /\ calib \in [digMin : CalValues, digMax : CalValues, physMin : CalValues, physMax : CalValues]
  /\ physTable = <<>>

\* the conversion of every raw value under the calibration
Convert ==
  /\ physTable = <<>>
  /\ physTable' = [raw \in RawValues |->
                     toPhysical(Num(raw), Num(calib.digMin), Num(calib.digMax),
                                Num(calib.physMin), Num(calib.physMax))]
  /\ UNCHANGED <<calib, pageVars, decVars>>

InitPhysical == PageIdle /\ DecIdle /\ PhysicalInit

NextPhysical == Convert

SpecPhysical == InitPhysical /\ [][NextPhysical]_vars

----------------------------------------------------------------------------
(* properties *)

B == DATA_CONFIG.maxPointsPerWave

Range(f) == {f[i] : i \in DOMAIN f}

\* the header as the bytes state it, read independently of readEDFFile's result
HeaderNumSignals == parseInt(field(arrayBuffer, Num(252), 4))

HeaderNumDataRecords == parseInt(field(arrayBuffer, Num(236), 8))

HeaderDuration == parseFloat(field(arrayBuffer, Num(244), 8))

HeaderSamplesPerRecord ==
  parseInt(field(arrayBuffer, NumAdd(Num(256), NumMul(Num(216), HeaderNumSignals)), 8))

HeaderCounts ==
  /\ HeaderNumSignals.t = "fin" /\ HeaderNumSignals.n >= 1
  /\ HeaderNumDataRecords.t = "fin" /\ HeaderNumDataRecords.n >= 0

\* the signed little-endian 16-bit value of two bytes
SignedLE(lo, hi) == IF hi >= 128 THEN lo + 256 * (hi - 256) ELSE lo + 256 * hi

\* C1: when readEDFFile returns for a header with channelCount >= 1 and
\* recordCount >= 0, element r of channel k is the little-endian signed
\* 16-bit value at byte (256 + 256*channelCount) + (r*channelCount + k)*2;
\* and a recording written with one sample per record decodes to the very
\* per-channel sequences that were written.
C1_Deinterleave ==
  (result.status = "returned" /\ HeaderCounts) =>
    LET cc == HeaderNumSignals.n
        rc == HeaderNumDataRecords.n
    IN  /\ Len(result.signals) = cc
        /\ \A k \in 0..(cc - 1) :
             /\ Len(heap[result.signals[k + 1]]) >= rc
             /\ \A r \in 0..(rc - 1) :
                  LET off == (256 + 256 * cc) + (r * cc + k) * 2
                  IN  heap[result.signals[k + 1]][r + 1]
                        = SignedLE(arrayBuffer[off + 1], arrayBuffer[off + 2])
        /\ (edf.malformed = "none" /\ edf.spr = 1 /\ edf.cut = 0) =>
             [k \in 1..cc |-> heap[result.signals[k]]] = edf.samples

\* two channels, three records, [10,20],[30,40],[50,60] decoded
C1_Witness ==
  /\ result.status = "returned"
  /\ edf.channels = 2 /\ edf.records = 3 /\ edf.spr = 1 /\ edf.malformed = "none"
  /\ heap[result.signals[1]] = <<10, 30, 50>>
  /\ heap[result.signals[2]] = <<20, 40, 60>>

\* C2: after a successful readEDFFile every channel sequence has exactly
\* recordCount * samplesPerRecord elements, for every samplesPerRecord >= 1.
C2_LengthIsRecordsTimesSamplesPerRecord ==
  (/\ result.status = "returned" /\ HeaderCounts
   /\ HeaderSamplesPerRecord.t = "fin" /\ HeaderSamplesPerRecord.n >= 1) =>
    \A k \in 1..Len(result.signals) :
      Len(heap[result.signals[k]]) = HeaderNumDataRecords.n * HeaderSamplesPerRecord.n

\* C3: whenever the buffer is shorter than headerSize + recordCount *
\* channelCount * 2 bytes, readEDFFile does not return and no signal matrix
\* is stored.
C3_TruncatedBufferFails ==
  (/\ HeaderCounts
   /\ Len(arrayBuffer) < (256 + 256 * HeaderNumSignals.n)
                           + HeaderNumDataRecords.n * HeaderNumSignals.n * 2) =>
    (result.status # "returned" /\ globalSignals = <<>>)

\* a numeric header field that is not a number after trimming
HeaderFieldNaN ==
  \/ isNaN(HeaderNumSignals)
  \/ isNaN(HeaderNumDataRecords)
  \/ isNaN(HeaderDuration)
  \/ isNaN(HeaderSamplesPerRecord)
  \/ \E i \in 0..(LoopCount(HeaderNumSignals) - 1) :
       \E base \in {104, 112, 120, 128} :
         isNaN(parseFloat(field(arrayBuffer,
                  Num(256 + base * HeaderNumSignals.n + i * 8), 8)))

\* C4: if a required numeric header field is non-numeric after trimming,
\* readEDFFile fails and never returns a result.
C4_MalformedHeaderFails == HeaderFieldNaN => result.status # "returned"

\* C5: when readEDFFile fails, DATA_CONFIG, globalSignals and globalLabels
\* hold the values they had before the call.
C5_NoPartialMutation ==
  result.status = "threw" =>
    (DATA_CONFIG = InitConfig /\ globalSignals = <<>> /\ globalLabels = <<>>)

\* C6: the sequence renderWindow's window-and-decimate step produces for a
\* channel of length L and start offset s has length <= B, and exactly B
\* whenever L - s >= B.
C6_WindowLength ==
  \A i \in DOMAIN rendered :
    LET L   == Len(heap[rendered[i].signal])
        out == Len(heap[rendered[i].decimatedData])
    IN  out <= B /\ (L - rendered[i].start >= B => out = B)

\* C7: the start index getWindowStart returns lies in
\* [0, max(0, L - maxPointsPerWave)] for every value the scrollbar holds.
C7_StartInRange ==
  \A i \in DOMAIN rendered :
    LET L == Len(heap[rendered[i].signal])
    IN  rendered[i].start >= 0 /\ rendered[i].start <= Max(0, L - B)

\* C8: for targetLength B >= 1, decimateData(data, B) is data itself when
\* len(data) <= B, and otherwise exactly the B points data[i * ratio],
\* ratio = floor(len(data) / B), every sampled index inside the array.
C8_DecimateReference ==
  decResult.done =>
    IF Len(decData) <= decTarget THEN decResult.value = decData
    ELSE LET ratio == Len(decData) \div decTarget
         IN  /\ Len(decResult.value) = decTarget
             /\ \A i \in 0..(decTarget - 1) :
                  /\ i * ratio < Len(decData)
                  /\ decResult.value[i + 1] = decData[i * ratio + 1]
                  /\ decResult.value[i + 1] # undefined

\* five distinct samples thinned to two, stride two
C8_Witness ==
  /\ decResult.done /\ decTarget = 2 /\ decData = Ramp(5)
  /\ decResult.value = <<11, 13>>

\* C9: for integer calibrations with digitalMax > digitalMin and
\* physicalMax > physicalMin, toPhysical is monotonic and affine in raw and
\* maps digitalMin to physicalMin and digitalMax to physicalMax.
C9_AffineMonotonic ==
  (physTable # <<>> /\ calib.digMax > calib.digMin /\ calib.physMax > calib.physMin) =>
    /\ \A r1, r2 \in RawValues : r1 <= r2 => NumLeq(physTable[r1], physTable[r2])
    /\ physTable[calib.digMin] = Num(calib.physMin)
    /\ physTable[calib.digMax] = Num(calib.physMax)
    /\ \A r \in RawValues :
         (r - 1 \in RawValues /\ r + 1 \in RawValues) =>
           NumSub(physTable[r + 1], physTable[r]) = NumSub(physTable[r], physTable[r - 1])

\* a calibration whose slope is not an integer: digital -2..2 to physical -1..2
C9_Witness ==
  /\ physTable # <<>>
  /\ calib = [digMin |-> 0 - 2, digMax |-> 2, physMin |-> 0 - 1, physMax |-> 2]
  /\ physTable[0] = Rat(1, 2)

\* the arrays handed to the renderer are not the stored channel arrays
FreshSequences ==
  \A i \in DOMAIN rendered :
    /\ rendered[i].decimatedData \notin Range(globalSignals)
    /\ rendered[i].windowData \notin Range(globalSignals)

\* a step taken once the matrix is stored leaves every channel as it was
ChannelsUnchanged ==
  pc = "loaded" =>
    /\ globalSignals' = globalSignals
    /\ \A r \in Range(globalSignals) : r \in DOMAIN heap' /\ heap'[r] = heap[r]

====
